---- MODULE Spec2Model ----
(***************************************************************************)
(* frontend/slice_avatars.py: slices one composite image (a 2x2 grid of    *)
(* portraits) into four files under public/avatars.                        *)
(*                                                                         *)
(* The model is the script's control flow, one action per statement, run   *)
(* against a small file system: the destination path (absent, a directory  *)
(* or a non-directory), the entries of the destination directory, and the  *)
(* source image.  Library calls (os.makedirs, Image.open, Image.crop,      *)
(* Image.save) either return or raise; which one is the environment's      *)
(* choice.  Standard output is taken to be writable (print never raises).  *)
(*                                                                         *)
(* An image is [size |-> <<cw, ch>>, px |-> f] with f mapping each         *)
(* <<i, j>> in (0..cw-1) \X (0..ch-1) to a pixel value.  The source image  *)
(* gives every pixel its own value, its coordinate <<x, y>>, so that a     *)
(* crop's content says which source pixels it holds and where.             *)
(* A file is [exists, data], data being the sequence of images the file's  *)
(* bytes encode (one image after a truncating write).                      *)
(***************************************************************************)
EXTENDS Integers, Sequences, FiniteSets, TLC

----------------------------------------------------------------------------
(* Bounds of the model *)

\* largest width and height of the source image
MaxDim == 4

\* number of consecutive runs of the script against the same file system
MaxRuns == 2

----------------------------------------------------------------------------
(* Literals of the script *)

source_path == "pixel_art_avatar_set_1769688752696.png"
dest_dir == "public/avatars"

\* the four output names, in the order of the list of lines 18-23
OutputOrder ==
  <<"technical_architect.png", "researcher.png",
    "cvpr_researcher.png", "critical_reviewer.png">>

OutputNames == {OutputOrder[k] : k \in 1..4}

\* an entry of the destination directory the script never names
Stray == "unrelated.png"

DirEntries == OutputNames \cup {Stray}

HintLine == <<"Pillow not found. Please install with: pip install Pillow">>
ErrorLine(msg) == <<"Error: ", msg>>
SavedLine(name) == <<"Saved ", name>>

----------------------------------------------------------------------------
(* Images and files *)

Blank == <<-1, -1>>

Pixels(size) == (0..(size[1] - 1)) \X (0..(size[2] - 1))

NoImage == [size |-> <<0, 0>>, px |-> [p \in {} |-> Blank]]

\* the decoded source: pixel <<x, y>> carries the value <<x, y>>
SourceImage(W, H) == [size |-> <<W, H>>, px |-> [p \in Pixels(<<W, H>>) |-> p]]

\* what an earlier, unrelated writer left in a file
StaleImage == [size |-> <<1, 1>>, px |-> [p \in Pixels(<<1, 1>>) |-> <<9, 9>>]]

NoFile == [exists |-> FALSE, data |-> <<>>]
StaleFile == [exists |-> TRUE, data |-> <<StaleImage>>]
\* a file opened for writing whose image was never completely written
TruncatedFile == [exists |-> TRUE, data |-> <<>>]

\* the box is (left, upper, right, lower) in the image's own
\* coordinates; the mutant reads it as (left, upper, width, height)
Crop_XYWH(image, box) ==
  LET size == <<box[3], box[4]>>
  IN  [size |-> size,
       px |-> [p \in Pixels(size) |->
                 LET q == <<box[1] + p[1], box[2] + p[2]>>
                 IN  IF q \in Pixels(image.size) THEN image.px[q] ELSE Blank]]

\* Image.crop((x1, y1, x2, y2)): an image of size (x2 - x1, y2 - y1) whose
\* pixel (i, j) is the pixel (x1 + i, y1 + j) of the image cropped
Crop(image, box) ==
  LET size == <<box[3] - box[1], box[4] - box[2]>>
  IN  [size |-> size,
       px |-> [p \in Pixels(size) |->
                 LET q == <<box[1] + p[1], box[2] + p[2]>>
                 IN  IF q \in Pixels(image.size) THEN image.px[q] ELSE Blank]]

\* the mutant opens the file for appending
WriteBinary_Append(file, image) ==
  [exists |-> TRUE, data |-> Append(file.data, image)]

\* Image.save(path) opens path "w+b" and writes the encoded image: whatever
\* the file held is replaced
WriteBinary(file, image) == [exists |-> TRUE, data |-> <<image>>]

\* the mutant mirrors the left/top quadrant size on the right/bottom
Quadrants_Symmetric(width_, height_, w_, h_) ==
  << <<0, 0, w_, h_, "technical_architect.png">>,
     <<w_, 0, w_ + w_, h_, "researcher.png">>,
     <<0, h_, w_, h_ + h_, "cvpr_researcher.png">>,
     <<w_, h_, w_ + w_, h_ + h_, "critical_reviewer.png">> >>

\* the mutant lists the top-right quadrant first
Quadrants_Reordered(width_, height_, w_, h_) ==
  << <<w_, 0, width_, h_, "researcher.png">>,
     <<0, 0, w_, h_, "technical_architect.png">>,
     <<0, h_, w_, height_, "cvpr_researcher.png">>,
     <<w_, h_, width_, height_, "critical_reviewer.png">> >>

\* the list literal of lines 18-23
Quadrants(width_, height_, w_, h_) ==
  << <<0, 0, w_, h_, "technical_architect.png">>,
     <<w_, 0, width_, h_, "researcher.png">>,
     <<0, h_, w_, height_, "cvpr_researcher.png">>,
     <<w_, h_, width_, height_, "critical_reviewer.png">> >>

\* os.path.exists: true of a directory and of any other kind of entry
PathExists(state) == state # "absent"

----------------------------------------------------------------------------
(* State *)

VARIABLES
  pc,         \* the statement the interpreter is at
  run,        \* which run of the script this is
  pillow,     \* the PIL package can be imported
  srcExists,  \* source_path names a file
  srcW, srcH, \* dimensions of the image stored at source_path
  dirState,   \* dest_dir: "absent", "dir" or "file" (exists, not a directory)
  files,      \* the entries of dest_dir
  img, width, height, w, h, avatars, i, crop,   \* the script's variables
  exc,        \* the exception being propagated: <<class, where raised>>
  stdout,     \* lines printed
  traceback,  \* the interpreter reported an uncaught exception
  exitCode,   \* the process's exit status, Running until it ends
  written,    \* names saved by this run, in order
  madeDir,    \* os.makedirs returned in this run
  dirInit, filesInit,  \* dest_dir and its entries when this run started
  prevExit    \* exit status of the previous run

env == <<pillow, srcExists, srcW, srcH>>
fs == <<dirState, files>>
locals == <<img, width, height, w, h, avatars, i, crop>>
hist == <<written, madeDir, dirInit, filesInit, prevExit, run>>
vars == <<pc, env, fs, locals, exc, stdout, traceback, exitCode, hist>>

Running == 0 - 1
Unset == 0 - 1
NoExc == <<"", "">>

\* what the destination directory may hold before the first run
InitialListings ==
  { [n \in DirEntries |-> NoFile],
    [n \in DirEntries |-> IF n = Stray THEN StaleFile ELSE NoFile],
    [n \in DirEntries |-> IF n = Stray THEN NoFile ELSE StaleFile],
    [n \in DirEntries |-> StaleFile] }

\* the interpreter's state when a run starts
Fresh ==
  /\ pc = "import"
  /\ img = NoImage /\ crop = NoImage
  /\ width = Unset /\ height = Unset /\ w = Unset /\ h = Unset
  /\ avatars = <<>> /\ i = 0
  /\ exc = NoExc /\ stdout = <<>> /\ traceback = FALSE /\ exitCode = Running
  /\ written = <<>> /\ madeDir = FALSE

Init ==
  /\ Fresh
  /\ run = 1 /\ prevExit = Running
  /\ pillow \in BOOLEAN /\ srcExists \in BOOLEAN
  /\ srcW \in 1..MaxDim /\ srcH \in 1..MaxDim
  /\ dirState \in {"absent", "dir", "file"}
  /\ files \in (IF dirState = "dir" THEN InitialListings
                ELSE {[n \in DirEntries |-> NoFile]})
  /\ dirInit = dirState /\ filesInit = files

----------------------------------------------------------------------------
(* Raising and returning *)

\* exception classes a PIL call may raise, as the two handlers tell them apart
LibraryErrors == {"ImportError", "Exception"}

\* control leaves the try body for the handlers, carrying the exception
Raise(class, where) ==
  /\ exc' = <<class, where>>
  /\ pc' = "except"

name == avatars[i][5]
box == <<avatars[i][1], avatars[i][2], avatars[i][3], avatars[i][4]>>

----------------------------------------------------------------------------
(* The script, statement by statement *)

\* lines 1-7: the imports run before the try statement is entered, so an
\* ImportError of PIL reaches no handler: the interpreter prints a traceback
\* on standard error and the process ends with status 1
ImportPIL ==
  /\ pc = "import"
  /\ IF pillow
       THEN /\ pc' = "exists"
            /\ UNCHANGED <<exc, traceback, exitCode>>
       ELSE /\ exc' = <<"ImportError", "import">>
            /\ traceback' = TRUE
            /\ exitCode' = 1
            /\ pc' = "done"
  /\ UNCHANGED <<env, fs, locals, stdout, hist>>

\* the mutant never creates the directory
CheckDir_Skip ==
  /\ pc = "exists"
  /\ pc' = "open"
  /\ UNCHANGED <<env, fs, locals, exc, stdout, traceback, exitCode, hist>>

\* line 10: if not os.path.exists(dest_dir)
CheckDir ==
  /\ pc = "exists"
  /\ pc' = IF ~PathExists(dirState) THEN "makedirs" ELSE "open"
  /\ UNCHANGED <<env, fs, locals, exc, stdout, traceback, exitCode, hist>>

\* line 11: os.makedirs(dest_dir) creates the directory or raises OSError
MakeDirs ==
  /\ pc = "makedirs"
  /\ \/ /\ dirState = "absent"
        /\ dirState' = "dir"
        /\ madeDir' = TRUE
        /\ pc' = "open"
        /\ UNCHANGED exc
     \/ /\ Raise("Exception", "makedirs")
        /\ UNCHANGED <<dirState, madeDir>>
  /\ UNCHANGED <<env, files, locals, stdout, traceback, exitCode,
                 written, dirInit, filesInit, prevExit, run>>

\* line 13: img = Image.open(source_path); a missing file raises
\* FileNotFoundError, an unreadable one whatever the library raises
OpenImage ==
  /\ pc = "open"
  /\ \/ /\ srcExists
        /\ img' = SourceImage(srcW, srcH)
        /\ pc' = "split"
        /\ UNCHANGED exc
     \/ /\ srcExists
        /\ \E class \in LibraryErrors : Raise(class, "open")
        /\ UNCHANGED img
     \/ /\ ~srcExists
        /\ Raise("Exception", "open")
        /\ UNCHANGED img
  /\ UNCHANGED <<env, fs, width, height, w, h, avatars, i, crop,
                 stdout, traceback, exitCode, hist>>

\* lines 14-16: width, height = img.size; w, h = width // 2, height // 2
ComputeSplit ==
  /\ pc = "split"
  /\ width' = img.size[1]
  /\ height' = img.size[2]
  /\ w' = width' \div 2
  /\ h' = height' \div 2
  /\ pc' = "avatars"
  /\ UNCHANGED <<env, fs, img, avatars, i, crop, exc, stdout, traceback,
                 exitCode, hist>>

\* lines 18-23: avatars = [...]
BuildAvatars ==
  /\ pc = "avatars"
  /\ avatars' = Quadrants(width, height, w, h)
  /\ pc' = "for"
  /\ UNCHANGED <<env, fs, img, width, height, w, h, i, crop, exc, stdout,
                 traceback, exitCode, hist>>

\* the mutant leaves the loop one item early
ForNext_OffByOne ==
  /\ pc = "for"
  /\ IF i < Len(avatars) - 1
       THEN i' = i + 1 /\ pc' = "crop"
       ELSE i' = i /\ pc' = "end"
  /\ UNCHANGED <<env, fs, img, width, height, w, h, avatars, crop, exc,
                 stdout, traceback, exitCode, hist>>

\* line 25: for x1, y1, x2, y2, name in avatars: the next item, or the end
ForNext ==
  /\ pc = "for"
  /\ IF i < Len(avatars)
       THEN i' = i + 1 /\ pc' = "crop"
       ELSE i' = i /\ pc' = "end"
  /\ UNCHANGED <<env, fs, img, width, height, w, h, avatars, crop, exc,
                 stdout, traceback, exitCode, hist>>

\* line 26: crop = img.crop((x1, y1, x2, y2))
CropStep ==
  /\ pc = "crop"
  /\ \/ /\ crop' = Crop(img, box)
        /\ pc' = "save"
        /\ UNCHANGED exc
     \/ /\ \E class \in LibraryErrors : Raise(class, "crop")
        /\ UNCHANGED crop
  /\ UNCHANGED <<env, fs, img, width, height, w, h, avatars, i, stdout,
                 traceback, exitCode, hist>>

\* line 27: crop.save(os.path.join(dest_dir, name)).  The file can be
\* created only in a directory.  A save that raises leaves the file as it
\* was or, having opened it for writing already, without a complete image.
SaveStep ==
  /\ pc = "save"
  /\ \/ /\ dirState = "dir"
        /\ files' = [files EXCEPT ![name] = WriteBinary(@, crop)]
        /\ written' = Append(written, name)
        /\ pc' = "print"
        /\ UNCHANGED exc
     \/ /\ \E class \in LibraryErrors : Raise(class, "save")
        /\ \/ UNCHANGED files
           \/ /\ dirState = "dir"
              /\ files' = [files EXCEPT ![name] = TruncatedFile]
        /\ UNCHANGED written
  /\ UNCHANGED <<env, dirState, locals, stdout, traceback, exitCode,
                 madeDir, dirInit, filesInit, prevExit, run>>

\* the mutant drops the confirmation
PrintSaved_Silent ==
  /\ pc = "print"
  /\ pc' = "for"
  /\ UNCHANGED <<env, fs, locals, exc, stdout, traceback, exitCode, hist>>

\* line 28: print(f"Saved {name}")
PrintSaved ==
  /\ pc = "print"
  /\ stdout' = Append(stdout, SavedLine(name))
  /\ pc' = "for"
  /\ UNCHANGED <<env, fs, locals, exc, traceback, exitCode, hist>>

\* lines 30-32: except ImportError: print the hint; sys.exit(1)
ExceptImportError ==
  /\ pc = "except"
  /\ exc[1] = "ImportError"
  /\ stdout' = Append(stdout, HintLine)
  /\ exitCode' = 1
  /\ pc' = "done"
  /\ UNCHANGED <<env, fs, locals, exc, traceback, hist>>

\* the mutant reports the error and exits with status 0
ExceptException_Exit0 ==
  /\ pc = "except"
  /\ exc[1] # "ImportError"
  /\ stdout' = Append(stdout, ErrorLine(exc[2]))
  /\ exitCode' = 0
  /\ pc' = "done"
  /\ UNCHANGED <<env, fs, locals, exc, traceback, hist>>

\* the mutant handles the error inside the loop and goes on to the next item
ExceptException_Continue ==
  /\ pc = "except"
  /\ exc[1] # "ImportError"
  /\ stdout' = Append(stdout, ErrorLine(exc[2]))
  /\ IF exc[2] \in {"crop", "save"}
       THEN pc' = "for" /\ UNCHANGED exitCode
       ELSE pc' = "done" /\ exitCode' = 1
  /\ UNCHANGED <<env, fs, locals, exc, traceback, hist>>

\* lines 33-35: except Exception as e: print(f"Error: {e}"); sys.exit(1)
ExceptException ==
  /\ pc = "except"
  /\ exc[1] # "ImportError"
  /\ stdout' = Append(stdout, ErrorLine(exc[2]))
  /\ exitCode' = 1
  /\ pc' = "done"
  /\ UNCHANGED <<env, fs, locals, exc, traceback, hist>>

\* the end of the file is reached: the process ends with status 0
Finish ==
  /\ pc = "end"
  /\ exitCode' = 0
  /\ pc' = "done"
  /\ UNCHANGED <<env, fs, locals, exc, stdout, traceback, hist>>

\* the script is started again on the file system the last run left
Rerun ==
  /\ pc = "done"
  /\ run < MaxRuns
  /\ run' = run + 1
  /\ prevExit' = exitCode
  /\ dirInit' = dirState
  /\ filesInit' = files
  /\ pc' = "import"
  /\ img' = NoImage /\ crop' = NoImage
  /\ width' = Unset /\ height' = Unset /\ w' = Unset /\ h' = Unset
  /\ avatars' = <<>> /\ i' = 0
  /\ exc' = NoExc /\ stdout' = <<>> /\ traceback' = FALSE
  /\ exitCode' = Running
  /\ written' = <<>> /\ madeDir' = FALSE
  /\ UNCHANGED <<env, fs>>

Step ==
  \/ ImportPIL
  \/ CheckDir
  \/ MakeDirs
  \/ OpenImage
  \/ ComputeSplit
  \/ BuildAvatars
  \/ ForNext
  \/ CropStep
  \/ SaveStep
  \/ PrintSaved
  \/ ExceptImportError
  \/ ExceptException
  \/ Finish

Next == Step \/ Rerun

Spec == Init /\ [][Next]_vars

\* a started process keeps executing until it ends; nothing obliges anyone
\* to start the script again
FairSpec == Spec /\ WF_vars(Step)

----------------------------------------------------------------------------
(* Vocabulary of the properties *)

IsPrefix(s, t) == Len(s) <= Len(t) /\ s = SubSeq(t, 1, Len(s))

Front(s) == SubSeq(s, 1, Len(s) - 1)

IsSavedLine(l) == Len(l) = 2 /\ l[1] = "Saved "
IsErrorLine(l) == l = HintLine \/ (Len(l) = 2 /\ l[1] = "Error: ")

\* the names of the confirmation lines printed so far, in order
SavedNames ==
  LET saved == SelectSeq(stdout, IsSavedLine)
  IN  [k \in 1..Len(saved) |-> saved[k][2]]

ErrorPositions == {k \in 1..Len(stdout) : IsErrorLine(stdout[k])}

Done == pc = "done"
Success == Done /\ exitCode = 0

Odd(n) == n % 2 = 1
Even(n) == n % 2 = 0

\* the four crop rectangles as the specification writes them, for a W x H
\* image: (0,0,w,h), (w,0,W,h), (0,h,w,H), (w,h,W,H) with w = W // 2, h = H // 2
StatedRects(W, H) ==
  LET hw == W \div 2
      hh == H \div 2
  IN  << <<0, 0, hw, hh>>, <<hw, 0, W, hh>>, <<0, hh, hw, H>>, <<hw, hh, W, H>> >>

InRect(p, r) == r[1] <= p[1] /\ p[1] < r[3] /\ r[2] <= p[2] /\ p[2] < r[4]

\* the rectangles the script computed
Rects == [k \in 1..Len(avatars) |-> <<avatars[k][1], avatars[k][2],
                                      avatars[k][3], avatars[k][4]>>]

\* every pixel of the source belongs to exactly one computed rectangle
TilesExactly ==
  \A p \in Pixels(<<srcW, srcH>>) :
    Cardinality({k \in 1..Len(Rects) : InRect(p, Rects[k])}) = 1

\* some pixel of the source belongs to no computed rectangle
DropsAPixel ==
  \E p \in Pixels(<<srcW, srcH>>) :
    \A k \in 1..Len(Rects) : ~InRect(p, Rects[k])

\* the image a complete output file holds
Stored(n) == files[n].data[1]

Complete(n) == files[n].exists /\ Len(files[n].data) = 1

\* the places <<n, q>> of the output files that hold source pixel p
PlacesOf(p) ==
  {nq \in UNION {{<<n, q>> : q \in Pixels(Stored(n).size)} : n \in OutputNames} :
     Stored(nq[1]).px[nq[2]] = p}

\* the four files put back at their rectangles' origins give the source
\* image: every source pixel is held once, at its own place
Reconstructs ==
  /\ \A n \in OutputNames : Complete(n)
  /\ \A p \in Pixels(<<srcW, srcH>>) : Cardinality(PlacesOf(p)) = 1
  /\ \A k \in 1..4 :
       LET im == Stored(OutputOrder[k])
           r == StatedRects(srcW, srcH)[k]
       IN  \A q \in Pixels(im.size) : im.px[q] = <<r[1] + q[1], r[2] + q[2]>>

----------------------------------------------------------------------------
(* Properties *)

\* C1: for a source of even width W and even height H, the rectangles the
\* script computes are the four stated ones and cover every pixel exactly
\* once, and after a fully successful run each of the four files holds an
\* image of size (W/2, H/2) and together they reconstruct the source.
C1_EvenTiling ==
  (Even(srcW) /\ Even(srcH)) =>
    /\ avatars # <<>> => (Rects = StatedRects(srcW, srcH) /\ TilesExactly)
    /\ Success =>
         /\ Reconstructs
         /\ \A n \in OutputNames :
              Stored(n).size = <<srcW \div 2, srcH \div 2>>

C1_Witness == Success /\ srcW = 4 /\ srcH = 2

\* C2 as stated: for a source of odd width or height, some pixel of the
\* source belongs to none of the four crop rectangles.
C2_Claim ==
  (Success /\ (Odd(srcW) \/ Odd(srcH))) => DropsAPixel

\* C2 amended: for a source of odd width or height the four rectangles
\* still cover every pixel exactly once and the four files reconstruct the
\* source; it is the sizes that differ: the right-hand crops are one pixel
\* wider than the left-hand ones when the width is odd, the lower crops one
\* pixel taller than the upper ones when the height is odd.
C2_OddTiling ==
  (Odd(srcW) \/ Odd(srcH)) =>
    /\ avatars # <<>> => (Rects = StatedRects(srcW, srcH) /\ TilesExactly)
    /\ Success =>
         /\ Reconstructs
         /\ \A k \in 1..4 :
              Stored(OutputOrder[k]).size =
                << IF k \in {2, 4} THEN srcW - srcW \div 2 ELSE srcW \div 2,
                   IF k \in {3, 4} THEN srcH - srcH \div 2 ELSE srcH \div 2 >>
         /\ Odd(srcW) =>
              Stored(OutputOrder[2]).size[1] = Stored(OutputOrder[1]).size[1] + 1
         /\ Odd(srcH) =>
              Stored(OutputOrder[3]).size[2] = Stored(OutputOrder[1]).size[2] + 1

C2_Witness == Success /\ srcW = 3 /\ srcH = 2

\* C3 as stated: when the source path does not exist the process exits
\* with code 1 and the run creates nothing: no output file and nothing
\* else on the file system.
C3_Claim ==
  (Done /\ ~srcExists) =>
    /\ exitCode = 1
    /\ written = <<>>
    /\ files = filesInit
    /\ dirState = dirInit

\* C3 amended: when the source path does not exist the process exits with
\* code 1 and no entry of the destination directory is written or changed;
\* the one thing the run creates is the destination directory itself, which
\* exists by the time the open fails.
C3_NoFilesCreated ==
  (Done /\ ~srcExists) =>
    /\ exitCode = 1
    /\ written = <<>>
    /\ files = filesInit
    /\ (dirState # dirInit) <=> madeDir
    /\ madeDir => (dirInit = "absent" /\ dirState = "dir")
    /\ exc[2] = "open" => dirState # "absent"

C3_Witness ==
  Done /\ ~srcExists /\ exc[2] = "open" /\ dirInit = "absent" /\ dirState = "dir"

\* C4: when Pillow cannot be imported, the run prints the installation
\* hint and exits with code 1.
C4_Claim ==
  (Done /\ ~pillow) => (exitCode = 1 /\ stdout = <<HintLine>>)

\* C5: in a run that starts with the destination directory absent, the
\* directory has been created by the time the source is opened and by the
\* time any output is written; nothing is written while the destination is
\* not a directory.
C5_DirBeforeWrites ==
  /\ (dirInit = "absent" /\ (pc \in {"open", "split", "avatars", "for", "crop",
                                      "save", "print", "end"}
                             \/ img # NoImage \/ written # <<>>))
       => (madeDir /\ dirState = "dir")
  /\ written # <<>> => dirState = "dir"

C5_Witness == dirInit = "absent" /\ Len(written) = 4

\* C6: a second successful run after a successful run leaves the
\* destination exactly as the first left it, and what a successful run
\* leaves in each of the four files is the one image it wrote, whatever the
\* file held before.
C6_Idempotent ==
  /\ Success => \A k \in 1..4 :
       files[OutputOrder[k]] =
         [exists |-> TRUE,
          data |-> <<Crop(SourceImage(srcW, srcH), StatedRects(srcW, srcH)[k])>>]
  /\ (Success /\ run > 1 /\ prevExit = 0) =>
       (files = filesInit /\ dirState = dirInit)

C6_Witness ==
  Success /\ run > 1 /\ prevExit = 0 /\ files[Stray].exists

----------------------------------------------------------------------------

\* what every ended run satisfies, but for the directory's other entries:
\* the exit code is 0 or 1, it is 0 exactly when all four writes succeeded,
\* it is 1 whenever an exception was raised, and a run that exits 0 has
\* written the four files, which the directory then holds complete
ExitCodeTellsSuccess ==
  /\ ~Done <=> exitCode = Running
  /\ Done =>
       /\ exitCode \in {0, 1}
       /\ exitCode = 0 <=> written = OutputOrder
       /\ exc # NoExc => exitCode = 1
       /\ exitCode = 0 =>
            \A n \in OutputNames : Complete(n) /\ \E k \in 1..4 : written[k] = n

\* C7 as stated: every run ends with exit code 0 or 1, 0 exactly when all
\* four writes succeeded, and on exit 0 the destination directory contains
\* exactly the four named files.
C7_Claim ==
  /\ ExitCodeTellsSuccess
  /\ Success => {n \in DirEntries : files[n].exists} = OutputNames

\* C7 amended: every run ends, with exit code 0 or 1, 0 exactly when all
\* four writes succeeded and 1 on any exception; on exit 0 the destination
\* directory contains the four named files, each written by this run, and
\* the run wrote nothing else: the entries the directory held before under
\* other names are still there, unchanged.
C7_ExitCodes ==
  /\ [](/\ ExitCodeTellsSuccess
        /\ Success => \A n \in DirEntries \ OutputNames : files[n] = filesInit[n]
        /\ \A k \in 1..Len(written) : written[k] \in OutputNames)
  /\ (~Done ~> Done)

C7_Witness == Success /\ files[Stray].exists /\ run = 1

\* C8: a "Saved <name>" line is printed only after <name> was written and
\* before the next crop or write starts; when the run has ended there are
\* as many confirmation lines as files written; an error line is printed
\* at most once, as the last line, and only by a run that exits with 1.
C8_Console ==
  /\ IsPrefix(SavedNames, written)
  /\ Len(written) <= Len(SavedNames) + 1
  /\ pc \in {"crop", "save"} => SavedNames = written
  /\ Done => Len(SavedNames) = Len(written)
  /\ \A k \in 1..Len(stdout) : IsSavedLine(stdout[k]) \/ IsErrorLine(stdout[k])
  /\ Cardinality(ErrorPositions) <= 1
  /\ \A k \in ErrorPositions : k = Len(stdout) /\ exitCode = 1

C8_Witness ==
  Done /\ Len(written) = 2 /\ Len(stdout) = 3 /\ ErrorPositions = {3}

\* the step that failed is the k-th of the loop (k = 0: before the loop)
FailedAt == IF exc[2] \in {"crop", "save"} THEN i ELSE 0

\* C9: once a step of the try body has failed no later step runs; the run
\* ends with the files before the failing one written and in place, the
\* files after it untouched, the failing one not written (a failed save
\* leaves it as it was or truncated), exactly one error message printed
\* and a non-zero exit status.
C9_FatalErrors ==
  /\ exc # NoExc => pc \in {"except", "done"}
  /\ (Done /\ exc[2] \in {"makedirs", "open", "crop", "save"}) =>
       /\ written = SubSeq(OutputOrder, 1, IF FailedAt = 0 THEN 0 ELSE FailedAt - 1)
       /\ \A k \in 1..4 :
            LET n == OutputOrder[k]
            IN  /\ (FailedAt # 0 /\ k < FailedAt) =>
                     files[n] = [exists |-> TRUE,
                                 data |-> <<Crop(img, StatedRects(srcW, srcH)[k])>>]
                /\ (FailedAt = 0 \/ k > FailedAt) => files[n] = filesInit[n]
                /\ k = FailedAt =>
                     \/ files[n] = filesInit[n]
                     \/ exc[2] = "save" /\ files[n] = TruncatedFile
       /\ files[Stray] = filesInit[Stray]
       /\ Cardinality(ErrorPositions) = 1
       /\ exitCode \notin {0, Running}

C9_Witness ==
  Done /\ exc[2] = "save" /\ FailedAt = 3 /\ Len(written) = 2
       /\ filesInit[OutputOrder[1]] = StaleFile

\* C10: in every state the files written so far by the run are a prefix
\* of the fixed order (each written once, the k-th holding the k-th
\* quadrant: top-left, top-right, bottom-left, bottom-right), and the
\* confirmation lines name that prefix or that prefix less its last file.
C10_PrefixOrder ==
  /\ IsPrefix(written, OutputOrder)
  /\ \A j, k \in 1..Len(written) : written[j] = written[k] => j = k
  /\ SavedNames = written \/ SavedNames = Front(written)
  /\ \A k \in 1..Len(written) :
       /\ Complete(written[k])
       /\ Stored(written[k]) = Crop(SourceImage(srcW, srcH), StatedRects(srcW, srcH)[k])

C10_Witness == pc = "print" /\ Len(written) = 3 /\ Len(SavedNames) = 2

====
